---- MODULE Spec2Model ----
(***************************************************************************)
(* Model of baseline-fixer: the vertical-metrics fixer                     *)
(* (fix_vertical_metrics.py), its inline fallback copy and the HTTP upload *)
(* handler with its multipart/form-data splitter (api/fix-font.py).        *)
(***************************************************************************)
EXTENDS Integers, Sequences, FiniteSets, TLC

\* Largest number of glyphs of an input font.
MaxGlyphs == 2

(***************************************************************************)
(* Fonts.  A font is the part of a TTFont the code reads or writes: which  *)
(* of the tables hhea, OS/2, glyf and head it has, the bounds of its       *)
(* glyphs, and the fields of hhea, OS/2 and head.                          *)
(***************************************************************************)

\* A glyph of the glyf table: one with an outline has yMin and yMax, an
\* empty one has neither attribute.
NoBounds == [bounds |-> FALSE, yMin |-> 0, yMax |-> 0]

GlyphBoxes ==
    {NoBounds} \cup
    {[bounds |-> TRUE, yMin |-> p[1], yMax |-> p[2]] :
        p \in {q \in (-1..1) \X (-1..1) : q[1] <= q[2]}}

SeqsUpTo(S, n) == UNION {[1..k -> S] : k \in 0..n}

\* The head table's bounding box; hasattr(head, 'yMax') may be false.
HeadTables ==
    {[hasYMax |-> a, yMax |-> IF a THEN 2 ELSE 0,
      hasYMin |-> b, yMin |-> IF b THEN -2 ELSE 0] : a \in BOOLEAN, b \in BOOLEAN}
NoHead == [hasYMax |-> FALSE, yMax |-> 0, hasYMin |-> FALSE, yMin |-> 0]

HheaTables ==
    {[ascent |-> 3, descent |-> -3, lineGap |-> 0],
     [ascent |-> 4, descent |-> 3, lineGap |-> 1]}
NoHhea == [ascent |-> 0, descent |-> 0, lineGap |-> 0]

\* fsSelection of the input: nothing set, REGULAR, USE_TYPO_METRICS, WWS.
FsSelections == {0, 64, 128, 256}

Os2Tables ==
    {[fsSelection |-> s, sTypoAscender |-> 5, sTypoDescender |-> -5,
      sTypoLineGap |-> 7, usWinAscent |-> 6, usWinDescent |-> 6] : s \in FsSelections}
NoOs2 == [fsSelection |-> 0, sTypoAscender |-> 0, sTypoDescender |-> 0,
          sTypoLineGap |-> 0, usWinAscent |-> 0, usWinDescent |-> 0]

Flavors == {"None", "woff", "woff2"}

HheaOpts == {[has |-> FALSE, t |-> NoHhea]} \cup {[has |-> TRUE, t |-> h] : h \in HheaTables}
Os2Opts == {[has |-> FALSE, t |-> NoOs2]} \cup {[has |-> TRUE, t |-> o] : o \in Os2Tables}
HeadOpts == {[has |-> FALSE, t |-> NoHead]} \cup {[has |-> TRUE, t |-> h] : h \in HeadTables}
\* Without a glyf table (a CFF font) the glyph set has names only.
GlyfOpts ==
    {[has |-> FALSE, t |-> g] : g \in SeqsUpTo({NoBounds}, MaxGlyphs)} \cup
    {[has |-> TRUE, t |-> g] : g \in SeqsUpTo(GlyphBoxes, MaxGlyphs)}

Fonts ==
    {[hasHhea |-> hh.has, hhea |-> hh.t, hasOS2 |-> os.has, os2 |-> os.t,
      hasGlyf |-> gl.has, glyphs |-> gl.t, hasHead |-> hd.has, head |-> hd.t,
      flavor |-> "None"] :
        hh \in HheaOpts, os \in Os2Opts, gl \in GlyfOpts, hd \in HeadOpts}

NoFont ==
    [hasHhea |-> FALSE, hhea |-> NoHhea, hasOS2 |-> FALSE, os2 |-> NoOs2,
     hasGlyf |-> FALSE, glyphs |-> <<>>, hasHead |-> FALSE, head |-> NoHead,
     flavor |-> "None"]

(***************************************************************************)
(* Files.  A file is missing, holds a font, or holds bytes (an upload).    *)
(***************************************************************************)
MissingFile == [kind |-> "missing", font |-> NoFont, data |-> <<>>]
FontFile(f) == [kind |-> "font", font |-> f, data |-> <<>>]
BytesFile(b) == [kind |-> "bytes", font |-> NoFont, data |-> b]
\* What is at output_path before the run: nothing, or an older font file.
OldOutput == FontFile([NoFont EXCEPT !.flavor = "old"])

(***************************************************************************)
(* fontTools and os calls the code makes.                                  *)
(***************************************************************************)
\* os.path.exists(path)
exists(file) == file.kind # "missing"

\* Uploaded bytes that are font files, and the font each holds.  The second
\* one ends with a '-' byte.
GoodFont ==
    [hasHhea |-> TRUE, hhea |-> [ascent |-> 3, descent |-> -3, lineGap |-> 0],
     hasOS2 |-> TRUE,
     os2 |-> [fsSelection |-> 64, sTypoAscender |-> 5, sTypoDescender |-> -5,
              sTypoLineGap |-> 7, usWinAscent |-> 6, usWinDescent |-> 6],
     hasGlyf |-> TRUE, glyphs |-> <<[bounds |-> TRUE, yMin |-> -1, yMax |-> 1]>>,
     hasHead |-> TRUE,
     head |-> [hasYMax |-> TRUE, yMax |-> 2, hasYMin |-> TRUE, yMin |-> -2],
     flavor |-> "None"]
FontBytesA == <<"a", "a">>
FontBytesB == <<"a", "-">>
FontBytesC == <<"a">>

\* TTFont(path): the font a file holds; bytes that are no font raise
\* TTLibError.
TTFont(file) ==
    IF file.kind = "font" THEN [ok |-> TRUE, font |-> file.font]
    ELSE IF file.data = FontBytesA THEN [ok |-> TRUE, font |-> GoodFont]
    ELSE IF file.data = FontBytesB
        THEN [ok |-> TRUE, font |-> [GoodFont EXCEPT !.hhea.lineGap = 1]]
    ELSE IF file.data = FontBytesC
        THEN [ok |-> TRUE, font |-> [GoodFont EXCEPT !.hasOS2 = FALSE, !.os2 = NoOs2]]
    ELSE [ok |-> FALSE, font |-> NoFont]

\* v | (1 << k)
BitOr1(v, k) == IF (v \div (2 ^ k)) % 2 = 1 THEN v ELSE v + 2 ^ k
\* v & (1 << k) # 0
BitSet(v, k) == (v \div (2 ^ k)) % 2 = 1

\* The result of a call: the exception that escaped ("None" when it
\* returned), the file at output_path afterwards, and the TTFont object as
\* the call left it (NoFont when none was loaded).
Raise(exc, outFile, mem) == [raised |-> exc, out |-> outFile, mem |-> mem]
Return(outFile, mem) == [raised |-> "None", out |-> outFile, mem |-> mem]

Int16(v) == v >= -32768 /\ v <= 32767
UInt16(v) == v >= 0 /\ v <= 65535

\* font.save(output_path): hhea and OS/2 are packed with struct formats, the
\* ascenders, descenders and line gaps as int16, usWinAscent, usWinDescent
\* and fsSelection as uint16; a value out of range raises struct.error
\* before anything is written.
save(font, outFile) ==
    IF /\ Int16(font.hhea.ascent) /\ Int16(font.hhea.descent) /\ Int16(font.hhea.lineGap)
       /\ Int16(font.os2.sTypoAscender) /\ Int16(font.os2.sTypoDescender)
       /\ Int16(font.os2.sTypoLineGap)
       /\ UInt16(font.os2.usWinAscent) /\ UInt16(font.os2.usWinDescent)
       /\ UInt16(font.os2.fsSelection)
    THEN Return(FontFile(font), font)
    ELSE Raise("struct.error", outFile, font)

\* font.save(output_path, flavor=flavor): TTFont.save takes (file,
\* reorderTables) only, so the keyword raises TypeError before anything is
\* written.
save_flavor_keyword(font, outFile, flavor) == Raise("TypeError", outFile, font)

(***************************************************************************)
(* fix_vertical_metrics.py                                                 *)
(***************************************************************************)
\* ymax / ymin while they may still be None.
None2 == [ymaxSet |-> FALSE, ymax |-> 0, yminSet |-> FALSE, ymin |-> 0]

\* The loop over the glyphs (lines 30-36).
RECURSIVE glyph_loop(_, _, _)
glyph_loop(glyphs, i, acc) ==
    IF i > Len(glyphs) THEN acc
    ELSE LET g == glyphs[i]
             a1 == IF g.bounds /\ (~acc.ymaxSet \/ g.yMax > acc.ymax)
                   THEN [acc EXCEPT !.ymaxSet = TRUE, !.ymax = g.yMax] ELSE acc
             a2 == IF g.bounds /\ (~a1.yminSet \/ g.yMin < a1.ymin)
                   THEN [a1 EXCEPT !.yminSet = TRUE, !.ymin = g.yMin] ELSE a1
         IN glyph_loop(glyphs, i + 1, a2)

\* The fallback to the head table (lines 39-44); the first definition is
\* the variant that goes from the glyphs straight to hhea, as find_ymax_ymin
\* of api/fix-font.py does.
head_fallback_skipped(font, acc) == acc

head_fallback(font, acc) ==
    IF ~font.hasHead THEN acc
    ELSE LET a1 == IF ~acc.ymaxSet /\ font.head.hasYMax
                   THEN [acc EXCEPT !.ymaxSet = TRUE, !.ymax = font.head.yMax] ELSE acc
         IN IF ~a1.yminSet /\ font.head.hasYMin
            THEN [a1 EXCEPT !.yminSet = TRUE, !.ymin = font.head.yMin] ELSE a1

\* The fallback to hhea (lines 47-52).
hhea_fallback(font, acc) ==
    [ymaxSet |-> TRUE, ymax |-> IF acc.ymaxSet THEN acc.ymax ELSE font.hhea.ascent,
     yminSet |-> TRUE, ymin |-> IF acc.yminSet THEN acc.ymin ELSE font.hhea.descent]

get_font_ymax_ymin(font) ==
    LET a0 == IF font.hasGlyf THEN glyph_loop(font.glyphs, 1, None2) ELSE None2
    IN hhea_fallback(font, head_fallback(font, a0))

\* The bit of fsSelection line 85 sets.
FsSelectionBit == 8

\* Line 98; the first definition is the variant that clamps a lowest yMin
\* above the baseline to 0.
us_win_descent_clamped(ymin) == IF ymin < 0 THEN -ymin ELSE 0

us_win_descent(ymin) == IF ymin < 0 THEN -ymin ELSE ymin

\* Lines 57-104.  An OS/2 table object has no winAscent or winDescent
\* attribute, so lines 95 and 101 do nothing; the prints are left out.
fix_vertical_metrics(inFile, outFile, flavor) ==
    IF ~exists(inFile) THEN Raise("FileNotFoundError", outFile, NoFont)
    ELSE LET opened == TTFont(inFile) IN
    IF ~opened.ok THEN Raise("TTLibError", outFile, NoFont)
    ELSE LET font == opened.font IN
    IF ~font.hasHhea THEN Raise("KeyError", outFile, font)
    ELSE IF ~font.hasOS2 THEN Raise("ValueError", outFile, font)
    ELSE LET b == get_font_ymax_ymin(font)
             hhea == [font.hhea EXCEPT !.ascent = b.ymax, !.descent = b.ymin]
             os2 == [fsSelection |-> BitOr1(font.os2.fsSelection, FsSelectionBit),
                     sTypoAscender |-> hhea.ascent,
                     sTypoDescender |-> hhea.descent,
                     sTypoLineGap |-> hhea.lineGap,
                     usWinAscent |-> b.ymax,
                     usWinDescent |-> us_win_descent(b.ymin)]
         IN save([font EXCEPT !.hhea = hhea, !.os2 = os2, !.flavor = flavor], outFile)

(***************************************************************************)
(* api/fix-font.py: the inline fallback of _import_fix_function.           *)
(***************************************************************************)
\* find_ymax_ymin (lines 32-53): font['glyf'][name] if 'glyf' in font else None.
find_ymax_ymin(font) ==
    LET a0 == IF font.hasGlyf THEN glyph_loop(font.glyphs, 1, None2) ELSE None2
    IN hhea_fallback(font, a0)

\* The bit of fsSelection line 76 sets.
InlineFsSelectionBit == 7

\* Lines 55-91.
inline_fix_vertical_metrics(inFile, outFile, flavor) ==
    IF ~exists(inFile) THEN Raise("FileNotFoundError", outFile, NoFont)
    ELSE LET opened == TTFont(inFile) IN
    IF ~opened.ok THEN Raise("TTLibError", outFile, NoFont)
    ELSE LET font == opened.font IN
    IF ~font.hasHhea THEN Raise("KeyError", outFile, font)
    ELSE IF ~font.hasOS2 THEN Raise("ValueError", outFile, font)
    ELSE LET b == find_ymax_ymin(font)
             os2 == [fsSelection |-> BitOr1(font.os2.fsSelection, InlineFsSelectionBit),
                     sTypoAscender |-> font.hhea.ascent,
                     sTypoDescender |-> font.hhea.descent,
                     sTypoLineGap |-> font.hhea.lineGap,
                     usWinAscent |-> b.ymax,
                     usWinDescent |-> IF b.ymin < 0 THEN -b.ymin ELSE b.ymin]
         IN save_flavor_keyword([font EXCEPT !.os2 = os2], outFile, flavor)

(***************************************************************************)
(* Bytes and strings are sequences of characters; "CR" and "LF" are the    *)
(* two line-end bytes.  The Python operations the code uses on them:       *)
(***************************************************************************)
Whitespace == {" ", "CR", "LF", "TAB"}
Quotes == {"\"", "'"}

\* pat in s, from index i on: the first index, or 0.
RECURSIVE find(_, _, _)
find(s, pat, i) ==
    IF i + Len(pat) - 1 > Len(s) THEN 0
    ELSE IF SubSeq(s, i, i + Len(pat) - 1) = pat THEN i
    ELSE find(s, pat, i + 1)

contains(s, pat) == find(s, pat, 1) # 0
startswith(s, pat) == Len(s) >= Len(pat) /\ SubSeq(s, 1, Len(pat)) = pat

\* s.split(sep)
RECURSIVE split_from(_, _, _)
split_from(s, sep, start) ==
    LET i == find(s, sep, start)
    IN IF i = 0 THEN <<SubSeq(s, start, Len(s))>>
       ELSE <<SubSeq(s, start, i - 1)>> \o split_from(s, sep, i + Len(sep))

split(s, sep) == split_from(s, sep, 1)

\* s.split(sep, 1)[1], for a sep that is in s
after_first(s, sep) == SubSeq(s, find(s, sep, 1) + Len(sep), Len(s))
\* s.split(sep, 1)[0]
before_first(s, sep) == SubSeq(s, 1, find(s, sep, 1) - 1)

\* s.lstrip(chars), s.rstrip(chars), s.strip(chars)
RECURSIVE lstrip(_, _)
lstrip(s, chars) ==
    IF s # <<>> /\ Head(s) \in chars THEN lstrip(Tail(s), chars) ELSE s

RECURSIVE rstrip(_, _)
rstrip(s, chars) ==
    IF s # <<>> /\ s[Len(s)] \in chars THEN rstrip(SubSeq(s, 1, Len(s) - 1), chars) ELSE s

strip(s, chars) == lstrip(rstrip(s, chars), chars)

\* s.lower(), for the letters header names are written with
Upper == <<"A", "B", "C", "D", "E", "F", "G", "H", "I", "J", "K", "L", "M",
           "N", "O", "P", "Q", "R", "S", "T", "U", "V", "W", "X", "Y", "Z">>
Lowercase == <<"a", "b", "c", "d", "e", "f", "g", "h", "i", "j", "k", "l", "m",
               "n", "o", "p", "q", "r", "s", "t", "u", "v", "w", "x", "y", "z">>
lower_char(c) ==
    IF \E i \in 1..26 : Upper[i] = c
    THEN Lowercase[CHOOSE i \in 1..26 : Upper[i] = c] ELSE c
lower(s) == [i \in 1..Len(s) |-> lower_char(s[i])]

CRLF == <<"CR", "LF">>
CRLFCRLF == <<"CR", "LF", "CR", "LF">>
StrName == <<"n", "a", "m", "e", "=">>
StrFilename == <<"f", "i", "l", "e", "n", "a", "m", "e", "=">>
StrContentDisposition == <<"c", "o", "n", "t", "e", "n", "t", "-", "d", "i", "s", "p", "o", "s", "i", "t", "i", "o", "n">>
StrFile == <<"f", "i", "l", "e">>
StrFormat == <<"f", "o", "r", "m", "a", "t">>
StrMultipart == <<"m", "u", "l", "t", "i", "p", "a", "r", "t", "/", "f", "o", "r", "m", "-", "d", "a", "t", "a">>
StrBoundary == <<"b", "o", "u", "n", "d", "a", "r", "y", "=">>
StrFontTtf == <<"f", "o", "n", "t", ".", "t", "t", "f">>
StrTtf == <<"t", "t", "f">>
StrWoff == <<"w", "o", "f", "f">>
StrWoff2 == <<"w", "o", "f", "f", "2">>
StrFixed == <<"-", "f", "i", "x", "e", "d", ".">>

(***************************************************************************)
(* api/fix-font.py: parse_multipart                                        *)
(***************************************************************************)
\* A dict as a sequence of entries in insertion order; d[key] = value
\* replaces the entry of an existing key.
dict_set(d, entry) ==
    IF \E i \in 1..Len(d) : d[i].name = entry.name
    THEN [i \in 1..Len(d) |-> IF d[i].name = entry.name THEN entry ELSE d[i]]
    ELSE Append(d, entry)
has_key(d, name) == \E i \in 1..Len(d) : d[i].name = name
dict_get(d, name) == d[CHOOSE i \in 1..Len(d) : d[i].name = name]

\* Lines 121-125 and 128: the value of the last content-disposition header,
\* '' when there is none.
RECURSIVE content_disposition_of(_, _, _)
content_disposition_of(lines, i, value) ==
    IF i > Len(lines) THEN value
    ELSE LET line == lines[i]
         IN IF contains(line, <<":">>)
               /\ lower(strip(before_first(line, <<":">>), Whitespace)) = StrContentDisposition
            THEN content_disposition_of(lines, i + 1, strip(after_first(line, <<":">>), Whitespace))
            ELSE content_disposition_of(lines, i + 1, value)

\* Lines 133-138: the loop over the parameters of Content-Disposition.
RECURSIVE disposition_loop(_, _, _)
disposition_loop(params, i, acc) ==
    IF i > Len(params) THEN acc
    ELSE LET part == strip(params[i], Whitespace)
         IN IF startswith(part, StrName)
            THEN disposition_loop(params, i + 1,
                     [acc EXCEPT !.field_name = strip(after_first(part, <<"=">>), Quotes)])
            ELSE IF startswith(part, StrFilename)
            THEN disposition_loop(params, i + 1,
                     [acc EXCEPT !.hasFilename = TRUE,
                                 !.filename = strip(after_first(part, <<"=">>), Quotes)])
            ELSE disposition_loop(params, i + 1, acc)

\* Line 118: content.rstrip(b'\r\n--')
content_rstrip(content) == rstrip(content, {"CR", "LF", "-"})

\* Lines 107-145: one section; filename None is hasFilename FALSE.
parse_section(parts, raw) ==
    LET section == strip(raw, Whitespace)
    IN IF section = <<>> \/ section = <<"-", "-">> THEN parts
       ELSE IF ~contains(section, CRLFCRLF) THEN parts
       ELSE LET headers_raw == before_first(section, CRLFCRLF)
                content == content_rstrip(after_first(section, CRLFCRLF))
                cd == content_disposition_of(split(headers_raw, CRLF), 1, <<>>)
                found == IF contains(cd, StrName)
                         THEN disposition_loop(split(cd, <<";">>), 1,
                                  [field_name |-> <<>>, hasFilename |-> FALSE, filename |-> <<>>])
                         ELSE [field_name |-> <<>>, hasFilename |-> FALSE, filename |-> <<>>]
            IN IF found.field_name # <<>>
               THEN dict_set(parts, [name |-> found.field_name, content |-> content,
                                     hasFilename |-> found.hasFilename,
                                     filename |-> found.filename])
               ELSE parts

RECURSIVE parse_sections(_, _, _)
parse_sections(sections, i, parts) ==
    IF i > Len(sections) THEN parts
    ELSE parse_sections(sections, i + 1, parse_section(parts, sections[i]))

parse_multipart(body, boundary) == parse_sections(split(body, boundary), 1, <<>>)

(***************************************************************************)
(* api/fix-font.py: handler.do_POST                                        *)
(***************************************************************************)
Digits == <<"0", "1", "2", "3", "4", "5", "6", "7", "8", "9">>
is_digit(c) == \E i \in 1..10 : Digits[i] = c
digit_value(c) == (CHOOSE i \in 1..10 : Digits[i] = c) - 1

\* int(text): the number, or ValueError for text that is no number.
RECURSIVE int_digits(_, _, _)
int_digits(text, i, acc) ==
    IF i > Len(text) THEN acc
    ELSE int_digits(text, i + 1, 10 * acc + digit_value(text[i]))
int_ok(text) == text # <<>> /\ \A i \in 1..Len(text) : is_digit(text[i])
int(text) == int_digits(text, 1, 0)

\* Lines 178-183: '--' + the first boundary parameter; <<>> is None.
RECURSIVE boundary_loop(_, _)
boundary_loop(params, i) ==
    IF i > Len(params) THEN <<>>
    ELSE LET part == strip(params[i], Whitespace)
         IN IF startswith(part, StrBoundary)
            THEN <<"-", "-">> \o strip(after_first(part, <<"=">>), Quotes)
            ELSE boundary_loop(params, i + 1)

\* os.path.splitext(name)[0], for a name without a directory: up to the
\* last dot that follows a character other than a dot.
RECURSIVE last_dot(_, _)
last_dot(name, i) ==
    IF i < 1 THEN 0 ELSE IF name[i] = "." THEN i ELSE last_dot(name, i - 1)
splitext_root(name) ==
    LET d == last_dot(name, Len(name))
    IN IF d > 1 /\ \E j \in 1..(d - 1) : name[j] # "." THEN SubSeq(name, 1, d - 1) ELSE name

NoResponse ==
    [status |-> 0, content_type |-> <<>>, disposition |-> <<>>, body |-> MissingFile,
     error |-> "None"]
\* self.send_error(code, message)
send_error(code) == [NoResponse EXCEPT !.status = code]
\* The except branch, lines 249-263.
error_500(exc) == [NoResponse EXCEPT !.status = 500, !.error = exc]

\* What a run of do_POST leaves: the return it took, the response, the
\* parts parse_multipart gave, and how many times it called
\* fix_vertical_metrics and made a temporary directory.
Outcome(stage, response, parts, fixCalls, tempDirs) ==
    [stage |-> stage, response |-> response, parts |-> parts,
     fixCalls |-> fixCalls, tempDirs |-> tempDirs]

\* Line 201: file_part.get('filename', 'font.ttf').  The key is always in
\* the dict, with None when the part carried no filename.
file_name_of(file_part) ==
    IF file_part.hasFilename THEN [isNone |-> FALSE, name |-> file_part.filename]
    ELSE [isNone |-> TRUE, name |-> <<>>]

\* Lines 202-205.
output_format_of(parts) ==
    LET raw == IF has_key(parts, StrFormat) THEN dict_get(parts, StrFormat).content ELSE StrTtf
        stripped == strip(raw, Whitespace)
        fmt == IF stripped = <<>> THEN StrTtf ELSE stripped
    IN IF fmt \in {StrTtf, StrWoff, StrWoff2} THEN fmt ELSE StrTtf

\* Lines 216-224.
flavor_of(fmt) == IF fmt = StrWoff THEN "woff" ELSE IF fmt = StrWoff2 THEN "woff2" ELSE "None"

\* Lines 234-239.
content_type_map(fmt) ==
    IF fmt = StrTtf THEN <<"f", "o", "n", "t", "/", "t", "t", "f">>
    ELSE IF fmt = StrWoff THEN <<"f", "o", "n", "t", "/", "w", "o", "f", "f">>
    ELSE <<"f", "o", "n", "t", "/", "w", "o", "f", "f", "2">>

\* Lines 200-247, once a file part with content is there.
process_upload(parts, importOk) ==
    LET file_part == dict_get(parts, StrFile)
        file_data == file_part.content
        file_name == file_name_of(file_part)
        output_format == output_format_of(parts)
    IN IF file_name.isNone
       THEN \* os.path.join(temp_dir, None)
            Outcome("exception", error_500("TypeError"), parts, 0, 1)
       ELSE IF file_name.name = <<>>
       THEN \* open(temp_dir + '/', 'wb')
            Outcome("exception", error_500("IsADirectoryError"), parts, 0, 1)
       ELSE LET base_name == splitext_root(file_name.name)
                flavor == flavor_of(output_format)
                r == IF importOk
                     THEN fix_vertical_metrics(BytesFile(file_data), MissingFile, flavor)
                     ELSE inline_fix_vertical_metrics(BytesFile(file_data), MissingFile, flavor)
            IN IF r.raised # "None"
               THEN Outcome("exception", error_500(r.raised), parts, 1, 1)
               ELSE Outcome("ok",
                        [status |-> 200, content_type |-> content_type_map(output_format),
                         disposition |-> <<"a", "t", "t", "a", "c", "h", "m", "e", "n", "t", ";", " ", "f", "i", "l", "e", "n", "a", "m", "e", "=", "\"">> \o base_name
                                         \o StrFixed \o output_format \o <<"\"">>,
                         body |-> r.out, error |-> "None"],
                        parts, 1, 1)

\* Line 163: int(self.headers.get('Content-Length', 0))
content_length_of(header) ==
    IF ~header.present THEN [ok |-> TRUE, n |-> 0]
    ELSE IF int_ok(header.text) THEN [ok |-> TRUE, n |-> int(header.text)]
    ELSE [ok |-> FALSE, n |-> 0]

\* self.rfile.read(n)
read(stream, n) == SubSeq(stream, 1, IF n < Len(stream) THEN n ELSE Len(stream))

do_POST(req, importOk) ==
    LET content_length == content_length_of(req.contentLength)
    IN IF ~content_length.ok THEN Outcome("exception", error_500("ValueError"), <<>>, 0, 0)
       ELSE IF content_length.n = 0 THEN Outcome("no_content", send_error(400), <<>>, 0, 0)
       ELSE LET body == read(req.stream, content_length.n)
                content_type == IF req.contentType.present THEN req.contentType.text ELSE <<>>
            IN IF ~contains(content_type, StrMultipart)
               THEN Outcome("bad_content_type", send_error(400), <<>>, 0, 0)
               ELSE LET boundary == boundary_loop(split(content_type, <<";">>), 1)
                    IN IF boundary = <<>>
                       THEN Outcome("no_boundary", send_error(400), <<>>, 0, 0)
                       ELSE LET parts == parse_multipart(body, boundary)
                            IN IF ~has_key(parts, StrFile)
                                  \/ dict_get(parts, StrFile).content = <<>>
                               THEN Outcome("no_file", send_error(400), parts, 0, 0)
                               ELSE process_upload(parts, importOk)

(***************************************************************************)
(* The client of the endpoint: the form it sends and the request it makes. *)
(***************************************************************************)
\* Longest content of an uploaded file part, in bytes.
MaxContentLen == 2

ContentBytes == {"a", "-", "CR", "LF", " "}
Contents == SeqsUpTo(ContentBytes, MaxContentLen)
ClientBoundary == <<"X", "Y">>

FilePart(hasFilename, content) ==
    [name |-> StrFile, hasFilename |-> hasFilename,
     filename |-> IF hasFilename THEN <<"f", ".", "t", "t", "f">> ELSE <<>>, content |-> content]
FormatPart(content) ==
    [name |-> StrFormat, hasFilename |-> FALSE, filename |-> <<>>, content |-> content]

\* The forms: a file part or none, then a format part or none.
Forms ==
    {f \o g : f \in {<<>>} \cup {<<FilePart(h, c)>> : h \in BOOLEAN, c \in Contents},
              g \in {<<>>, <<FormatPart(StrWoff2)>>, <<FormatPart(<<"e", "x", "e">>)>>}}

\* One part of a multipart/form-data body (RFC 7578).
BuildPart(p, boundary) ==
    <<"-", "-">> \o boundary \o CRLF
    \o <<"C", "o", "n", "t", "e", "n", "t", "-", "D", "i", "s", "p", "o", "s", "i", "t", "i", "o", "n", ":", " ", "f", "o", "r", "m", "-", "d", "a", "t", "a", ";", " ", "n", "a", "m", "e", "=", "\"">> \o p.name \o <<"\"">>
    \o (IF p.hasFilename THEN <<";", " ", "f", "i", "l", "e", "n", "a", "m", "e", "=", "\"">> \o p.filename \o <<"\"">> ELSE <<>>)
    \o CRLFCRLF \o p.content \o CRLF

RECURSIVE BuildParts(_, _, _)
BuildParts(form, i, boundary) ==
    IF i > Len(form) THEN <<>>
    ELSE BuildPart(form[i], boundary) \o BuildParts(form, i + 1, boundary)

BuildBody(form, boundary) ==
    BuildParts(form, 1, boundary) \o <<"-", "-">> \o boundary \o <<"-", "-">> \o CRLF

RECURSIVE ToDigits(_)
ToDigits(n) == IF n < 10 THEN <<Digits[n + 1]>> ELSE Append(ToDigits(n \div 10), Digits[(n % 10) + 1])

Header(text) == [present |-> TRUE, text |-> text]
NoHeader == [present |-> FALSE, text |-> <<>>]

ContentTypes ==
    {NoHeader, Header(<<"t", "e", "x", "t", "/", "p", "l", "a", "i", "n">>), Header(StrMultipart),
     Header(StrMultipart \o <<";", " ", "b", "o", "u", "n", "d", "a", "r", "y", "=">> \o ClientBoundary)}

ContentLengths(stream) ==
    {NoHeader, Header(<<"0">>), Header(<<"a", "b", "c">>), Header(ToDigits(Len(stream)))}

NoRequest == [contentLength |-> NoHeader, contentType |-> NoHeader, stream |-> <<>>]

(***************************************************************************)
(* The state: a run of the command line (main) or of the endpoint          *)
(* (do_POST).                                                              *)
(***************************************************************************)
VARIABLES
    entry,        \* "cli" or "http": which program runs
    pc,           \* "start", then "done"
    inputFile,    \* cli: the file at args.input
    outputFile,   \* cli: the file at args.output
    flavor,       \* cli: args.flavor
    raised,       \* cli: the exception main caught, "None" if none
    exitStatus,   \* cli: the exit status of the process once done
    stderr,       \* cli: what main printed to sys.stderr
    importOk,     \* http: whether 'from fix_vertical_metrics import ...' worked
    sent,         \* http: the form the client built the body from
    request,      \* http: the request's headers and body stream
    outcome       \* http: what do_POST did

vars == <<entry, pc, inputFile, outputFile, flavor, raised, exitStatus, stderr,
          importOk, sent, request, outcome>>

NoOutcome == Outcome("none", NoResponse, <<>>, 0, 0)

InitCli ==
    /\ entry = "cli"
    /\ inputFile \in {MissingFile} \cup {FontFile(f) : f \in Fonts}
    /\ outputFile \in {MissingFile, OldOutput}
    /\ flavor \in Flavors
    /\ importOk = TRUE
    /\ sent = <<>>
    /\ request = NoRequest

InitHttp ==
    /\ entry = "http"
    /\ inputFile = MissingFile
    /\ outputFile = MissingFile
    /\ flavor = "None"
    /\ importOk \in BOOLEAN
    /\ sent \in Forms
    /\ \E ct \in ContentTypes :
         LET stream == BuildBody(sent, ClientBoundary)
         IN \E cl \in ContentLengths(stream) :
              request = [contentLength |-> cl, contentType |-> ct, stream |-> stream]

Init ==
    /\ pc = "start"
    /\ raised = "None"
    /\ exitStatus = 0
    /\ stderr = <<>>
    /\ outcome = NoOutcome
    /\ (InitCli \/ InitHttp)

\* main(): lines 129-135.
Main ==
    /\ entry = "cli"
    /\ pc = "start"
    /\ LET r == fix_vertical_metrics(inputFile, outputFile, flavor)
       IN /\ raised' = r.raised
          /\ outputFile' = r.out
          /\ exitStatus' = IF r.raised = "None" THEN 0 ELSE 1
          /\ stderr' = IF r.raised = "None" THEN <<>> ELSE <<r.raised>>
    /\ pc' = "done"
    /\ UNCHANGED <<entry, inputFile, flavor, importOk, sent, request, outcome>>

\* handler.do_POST: lines 159-263.
DoPost ==
    /\ entry = "http"
    /\ pc = "start"
    /\ outcome' = do_POST(request, importOk)
    /\ pc' = "done"
    /\ UNCHANGED <<entry, inputFile, outputFile, flavor, raised, exitStatus, stderr,
                   importOk, sent, request>>

Next == Main \/ DoPost

Spec == Init /\ [][Next]_vars

(***************************************************************************)
(* Properties.                                                             *)
(***************************************************************************)
\* main has run fix_vertical_metrics and it returned without raising.
Fixed == entry = "cli" /\ pc = "done" /\ raised = "None"
\* The font main read and the font it saved.
InFont == inputFile.font
OutFont == outputFile.font

\* The glyphs that have bounds: those of the glyf table with yMin and yMax.
BoundedGlyphs(font) ==
    IF font.hasGlyf THEN {i \in 1..Len(font.glyphs) : font.glyphs[i].bounds} ELSE {}
Maximum(S) == CHOOSE m \in S : \A x \in S : x <= m
Minimum(S) == CHOOSE m \in S : \A x \in S : m <= x

\* The highest yMax in the font: over the glyphs that have bounds, else
\* head.yMax, else the input's hhea ascent.
HighestYMax(font) ==
    IF BoundedGlyphs(font) # {}
    THEN Maximum({font.glyphs[i].yMax : i \in BoundedGlyphs(font)})
    ELSE IF font.hasHead /\ font.head.hasYMax THEN font.head.yMax
    ELSE font.hhea.ascent

\* The lowest yMin in the font, likewise.
LowestYMin(font) ==
    IF BoundedGlyphs(font) # {}
    THEN Minimum({font.glyphs[i].yMin : i \in BoundedGlyphs(font)})
    ELSE IF font.hasHead /\ font.head.hasYMin THEN font.head.yMin
    ELSE font.hhea.descent

\* C1: after fix_vertical_metrics returns without raising, bit 7 (mask 0x80,
\* USE_TYPO_METRICS) of the saved font's fsSelection is set, whatever the
\* input's fsSelection was.
C1_UseTypoMetricsSet == Fixed => BitSet(OutFont.os2.fsSelection, 7)

\* C2: after fix_vertical_metrics returns without raising, the saved font has
\* sTypoAscender = hhea.ascent = the highest yMax and sTypoDescender =
\* hhea.descent = the lowest yMin, taken over the glyphs that have bounds,
\* from the head table when no glyph has bounds, and from the input's hhea
\* when head gives none.
C2_TypoAndHheaAreFontBounds ==
    Fixed =>
        /\ OutFont.os2.sTypoAscender = HighestYMax(InFont)
        /\ OutFont.hhea.ascent = HighestYMax(InFont)
        /\ OutFont.os2.sTypoDescender = LowestYMin(InFont)
        /\ OutFont.hhea.descent = LowestYMin(InFont)

\* C2's case: no glyph has bounds, head gives yMax but no yMin, so that the
\* ascent comes from head and the descent from the input's hhea.
C2_Witness ==
    /\ Fixed
    /\ InFont.glyphs # <<>> /\ BoundedGlyphs(InFont) = {}
    /\ InFont.hasHead /\ InFont.head.hasYMax /\ ~InFont.head.hasYMin
    /\ OutFont.hhea.ascent = InFont.head.yMax
    /\ OutFont.hhea.descent = InFont.hhea.descent

C4_ErrorsRaisedAndReported ==
    [][(entry = "cli" /\ pc = "start" /\ pc' = "done") =>
        /\ ~exists(inputFile) => raised' = "FileNotFoundError"
        /\ (exists(inputFile) /\ ~InFont.hasOS2) => raised' = "ValueError"
        /\ (~exists(inputFile) \/ ~InFont.hasOS2) =>
               /\ outputFile' = outputFile
               /\ stderr' # <<>>
               /\ exitStatus' = 1]_vars

\* The cases of C5, read off the request: no Content-Length or 0, a
\* Content-Type without multipart/form-data, one without a boundary
\* parameter, a body that parses to no file part or to an empty one.
NoContentLength ==
    \/ ~request.contentLength.present
    \/ request.contentLength.text = <<"0">>
NotMultipart ==
    ~request.contentType.present \/ ~contains(request.contentType.text, StrMultipart)
NoBoundary ==
    ~request.contentType.present
    \/ \A i \in 1..Len(split(request.contentType.text, <<";">>)) :
         ~startswith(strip(split(request.contentType.text, <<";">>)[i], Whitespace), StrBoundary)
NoFileParsed ==
    LET parts == parse_multipart(request.stream, <<"-", "-">> \o ClientBoundary)
    IN ~has_key(parts, StrFile) \/ dict_get(parts, StrFile).content = <<>>
Posted == entry = "http" /\ pc = "done"

\* C5: do_POST answers 400, and neither calls fix_vertical_metrics nor makes
\* a temporary file, for every request with one of the four defects.
C5_MalformedAnswered400 ==
    (Posted /\ (NoContentLength \/ NotMultipart \/ NoBoundary \/ NoFileParsed)) =>
        /\ outcome.response.status = 400
        /\ outcome.fixCalls = 0
        /\ outcome.tempDirs = 0

\* C6: once do_POST has parsed the body of a well-formed form, every part
\* sent is there under its name with exactly the content that was sent.
C6_ParseRoundTrip ==
    (Posted /\ outcome.stage \in {"no_file", "ok"}) =>
        \A i \in 1..Len(sent) :
            /\ has_key(outcome.parts, sent[i].name)
            /\ dict_get(outcome.parts, sent[i].name).content = sent[i].content

\* C7: a file part that holds a font and carries no filename is processed
\* under the name font.ttf: fix_vertical_metrics is called, the status is
\* 200 and the response names font-fixed.<format>.
C7_DefaultFileName ==
    (/\ Posted /\ importOk
     /\ request.contentLength.present /\ int_ok(request.contentLength.text)
     /\ int(request.contentLength.text) = Len(request.stream)
     /\ ~NotMultipart /\ ~NoBoundary
     /\ \E i \in 1..Len(sent) :
          sent[i].name = StrFile /\ ~sent[i].hasFilename /\ sent[i].content = FontBytesA) =>
        /\ outcome.response.status = 200
        /\ outcome.fixCalls = 1
        /\ outcome.response.disposition =
               <<"a", "t", "t", "a", "c", "h", "m", "e", "n", "t", ";", " ", "f", "i", "l", "e", "n", "a", "m", "e", "=", "\"", "f", "o", "n", "t", "-", "f", "i", "x", "e", "d", ".">>
                   \o output_format_of(outcome.parts) \o <<"\"">>

\* The fields C8 compares.
Metrics(font) ==
    <<font.hhea.ascent, font.hhea.descent, font.hhea.lineGap,
      font.os2.sTypoAscender, font.os2.sTypoDescender, font.os2.sTypoLineGap,
      font.os2.usWinAscent, font.os2.usWinDescent, font.os2.fsSelection>>

\* C8: on the input main has run on, the inline fallback of api/fix-font.py
\* raises the same error as fix_vertical_metrics did, or both save fonts
\* with the same hhea and OS/2 metrics and fsSelection.
C8_FallbackEquivalent ==
    (entry = "cli" /\ pc = "done") =>
        LET r == inline_fix_vertical_metrics(inputFile, MissingFile, flavor)
        IN /\ r.raised = raised
           /\ raised = "None" => Metrics(r.out.font) = Metrics(OutFont)

====
